---- MODULE Spec2Model ----
(***************************************************************************)
(* A model of the algorithmic core of fabdb-python:                        *)
(*   - FabCardDiff / FabDeckDiff (src/fabdb/client/extended.py), the deck   *)
(*     diff engine, with the merge loop of _diff_cards taken one iteration  *)
(*     at a time;                                                           *)
(*   - FabCardResults (src/fabdb/client/types.py), the lazily paginated     *)
(*     result collection.                                                   *)
(* Python positions are 0-based, TLA+ sequences 1-based: the element at     *)
(* Python position p of a list l is l[p + 1].                               *)
(***************************************************************************)
EXTENDS Integers, Sequences, FiniteSets, TLC

\* ------------------------------------------------------------------------
\* Bounds of the model
\* ------------------------------------------------------------------------
\* longest deck section enumerated
MaxLen == 2
\* largest "total" given to a card handed directly to FabCardDiff
MaxTotal == 2
\* largest total_results of a result collection
MaxResults == 5
\* largest page_size of a result collection
MaxPageSize == 2
\* how many failed page fetches a behaviour may contain
MaxFail == 1
\* the most pages of a collection
MaxPages == 3

\* ------------------------------------------------------------------------
\* Values
\* ------------------------------------------------------------------------
\* Python's None, for an absent card / an unfetched page / no value
None == [none |-> TRUE]

\* info.get("total") of a payload without a "total" key: Python's None
NoneTotal == -1

\* PitchValue: none=0, red=1, yellow=2, blue=3
PitchValues == 0..3

\* Card names are strings; a string is modelled as the sequence of its code
\* points so that Python's ordering of strings can be computed.
NameA == <<1>>
NameB == <<2>>
NameH1 == <<3>>
NameH2 == <<4>>

\* The cards that fill the enumerated deck sections: two names, two pitches
\* (red, yellow), one or two copies.
DeckNames == {NameA, NameB}
DeckPitches == {1, 2}
DeckTotals == {1, 2}
DeckCards == [name : DeckNames, pitch : DeckPitches, total : DeckTotals]

\* The hero cards: pitch none, one copy.
Heroes == [name : {NameH1, NameH2}, pitch : {0}, total : {1}]

\* The cards handed directly to the FabCardDiff constructor: the total may be
\* absent (None) or zero as well.
AnyTotals == (0..MaxTotal) \cup {NoneTotal}
AnyCards == [name : DeckNames, pitch : DeckPitches, total : AnyTotals]

Sections == <<"weapons", "equipment", "cards", "sideboard">>
SectionNames == {Sections[i] : i \in 1..Len(Sections)}

\* ------------------------------------------------------------------------
\* Comparisons
\* ------------------------------------------------------------------------
Min(x, y) == IF x < y THEN x ELSE y

\* str.__lt__: lexicographic order on code points, a proper prefix is smaller
StrLess(s, t) ==
    \E k \in 1..(Min(Len(s), Len(t)) + 1) :
        /\ \A i \in 1..(k - 1) : s[i] = t[i]
        /\ \/ (k = Len(s) + 1 /\ k <= Len(t))
           \/ (k <= Len(s) /\ k <= Len(t) /\ s[k] < t[k])

\* PitchValue.__lt__: compares the underlying integers
PitchLt(p, q) == p < q

\* FabCard.__eq__: the same logical card, by name and pitch; totals ignored
FabCardEq(x, y) == x.name = y.name /\ x.pitch = y.pitch

\* FabDeck._sort's key (o.pitch.value, o.name), compared as Python compares
\* tuples: first component first, the second only on a tie
KeyOf(c) == <<c.pitch, c.name>>
KeyLess(k1, k2) == k1[1] < k2[1] \/ (k1[1] = k2[1] /\ StrLess(k1[2], k2[2]))

\* a section as FabDeck._sort leaves it when no key repeats
IsStrictlySorted(s) ==
    \A i \in 1..(Len(s) - 1) : KeyLess(KeyOf(s[i]), KeyOf(s[i + 1]))

SortedSections ==
    {s \in UNION {[1..n -> DeckCards] : n \in 0..MaxLen} : IsStrictlySorted(s)}

\* ------------------------------------------------------------------------
\* FabCardDiff.__init__
\* ------------------------------------------------------------------------
Raise(kind) == [err |-> kind]

HasTotal(c) == c.total # NoneTotal

Abs(n) == IF n < 0 THEN -n ELSE n

\* "+" * delta, or "-" * (-delta), or ""
DiffString(delta) ==
    [i \in 1..Abs(delta) |-> IF delta > 0 THEN "+" ELSE "-"]

\* the two refusals of the constructor: two present sides that are not the
\* same card, or two absent sides
DiffRefused_NoAbsentCheck(x, y) == x # None /\ y # None /\ ~FabCardEq(x, y)

DiffRefused(x, y) ==
    \/ (x # None /\ y # None /\ ~FabCardEq(x, y))
    \/ (x = None /\ y = None)

\* self.delta, the difference between a and b
Delta_NoNegation(x, y) ==
    IF x = None THEN y.total
    ELSE IF y = None THEN x.total
    ELSE y.total - x.total

Delta_Reversed(x, y) ==
    IF x = None THEN y.total
    ELSE IF y = None THEN -x.total
    ELSE x.total - y.total

Delta(x, y) ==
    IF x = None THEN y.total
    ELSE IF y = None THEN -x.total
    ELSE y.total - x.total

FabCardDiff(x, y) ==
    IF DiffRefused(x, y) THEN Raise("ValueError")
    ELSE LET card == IF x # None THEN x ELSE y IN
         \* self.card._raw_info of None
         IF card = None THEN Raise("AttributeError")
         \* arithmetic or comparison on a None total
         ELSE IF (x # None /\ ~HasTotal(x)) \/ (y # None /\ ~HasTotal(y))
         THEN Raise("TypeError")
         ELSE [err |-> "ok", card |-> card, name |-> card.name,
               pitch |-> card.pitch, a |-> x, b |-> y,
               delta |-> Delta(x, y), diff |-> DiffString(Delta(x, y))]

\* ------------------------------------------------------------------------
\* FabDeckDiff
\* ------------------------------------------------------------------------
VARIABLES
    a, b,           \* FabDeckDiff.a, FabDeckDiff.b: the two decks
    dd,             \* FabDeckDiff's hero, weapons, equipment, cards, sideboard
    phase,          \* where _compute_diff stands
    a_pos, b_pos,   \* the cursors of the running _diff_cards
    result,         \* the result list of the running _diff_cards
    err,            \* the exception that ended _compute_diff, or "ok"
    prev,           \* the FabDeckDiff an earlier call built, or None
    cdA, cdB, cd,   \* a FabCardDiff built on its own: arguments and object
    page_size, total_pages, total_results, query, pages,
    fetched,        \* per cache slot: successful remote fetches of it
    failed,         \* failed remote fetches so far
    ret,            \* the last call on the collection and its outcome
    requests,       \* per cache slot: requests sent to the remote for it
    it,             \* the traversal in progress, or None
    callers         \* per caller: where its __getitem__ call stands

diffVars == <<a, b, dd, phase, a_pos, b_pos, result, err, prev>>
cardDiffVars == <<cdA, cdB, cd>>
pageVars == <<page_size, total_pages, total_results, query, pages,
              fetched, failed, ret, requests, it, callers>>

VARIABLES
    info,           \* the mapping handed to FabCard(info)
    fabcard,        \* the FabCard built from it, or the exception raised
    from_int,       \* the last PitchValue.from_int call and its outcome
    deck_info,      \* the payload handed to FabDeck(info)
    deck,           \* the FabDeck built from it
    cardfilter,     \* a CardFilter: field, comparison, target
    cards_in,       \* the list handed to CardFilter.apply
    applied         \* what apply returned or raised

cardVars == <<info, fabcard, from_int>>
deckVars == <<deck_info, deck>>
filterVars == <<cardfilter, cards_in, applied>>
recordVars == <<cardVars, deckVars, filterVars>>
vars == <<diffVars, cardDiffVars, pageVars, recordVars>>

\* the values of the variables a specification does not use
DiffIdle ==
    /\ a = None /\ b = None /\ dd = None /\ phase = "idle"
    /\ a_pos = 0 /\ b_pos = 0 /\ result = <<>> /\ err = "ok"
    /\ prev = None
CardDiffIdle == cdA = None /\ cdB = None /\ cd = None
CardIdle == info = None /\ fabcard = None /\ from_int = None
DeckIdle == deck_info = None /\ deck = None
FilterIdle == cardfilter = None /\ cards_in = <<>> /\ applied = None
RecordsIdle == CardIdle /\ DeckIdle /\ FilterIdle
PagesIdle ==
    /\ page_size = 0 /\ total_pages = 0 /\ total_results = 0
    /\ query = None /\ pages = <<>> /\ fetched = <<>> /\ failed = 0
    /\ ret = None /\ requests = <<>> /\ it = None /\ callers = None

\* FabDeck after construction: a hero (or None) and four sorted sections
EmptyDeck(h) ==
    [hero |-> h, weapons |-> <<>>, equipment |-> <<>>, cards |-> <<>>,
     sideboard |-> <<>>]
DeckWith(h, sec, s) == [EmptyDeck(h) EXCEPT ![sec] = s]

\* FabDeckDiff.__init__ before _compute_diff runs
FabDeckDiffInit ==
    /\ dd = [hero |-> None, weapons |-> <<>>, equipment |-> <<>>,
             cards |-> <<>>, sideboard |-> <<>>]
    /\ phase = "hero"
    /\ a_pos = 0 /\ b_pos = 0 /\ result = <<>> /\ err = "ok"

NextPhase(p) ==
    CASE p = "hero" -> "weapons"
      [] p = "weapons" -> "equipment"
      [] p = "equipment" -> "cards"
      [] p = "cards" -> "sideboard"
      [] p = "sideboard" -> "done"

\* the exception leaves _compute_diff: the later sections are never computed
Raised(kind) ==
    /\ phase' = "raised"
    /\ err' = kind
    /\ UNCHANGED <<a, b, dd, a_pos, b_pos, result, prev>>

\* self.hero = FabCardDiff(self.a.hero, self.b.hero)
ComputeHero ==
    /\ phase = "hero"
    /\ LET d == FabCardDiff(a.hero, b.hero) IN
       IF d.err # "ok" THEN Raised(d.err)
       ELSE /\ dd' = [dd EXCEPT !.hero = d]
            /\ phase' = NextPhase(phase)
            /\ UNCHANGED <<a, b, a_pos, b_pos, result, err, prev>>
    /\ UNCHANGED <<cardDiffVars, pageVars, recordVars>>

InLoop ==
    /\ phase \in SectionNames
    /\ a_pos < Len(a[phase])
    /\ b_pos < Len(b[phase])

\* elif ca.pitch < cb.pitch or ca.name < cb.name
OnlyInA(ca, cb) == PitchLt(ca.pitch, cb.pitch) \/ StrLess(ca.name, cb.name)

\* one iteration of the merge loop appends d and moves the cursors
Emit_KeepsB(d, da, db) ==
    IF d.err # "ok" THEN Raised(d.err)
    ELSE /\ result' = Append(result, d)
         /\ a_pos' = a_pos + da
         /\ b_pos' = b_pos
         /\ UNCHANGED <<a, b, dd, phase, err, prev>>

Emit(d, da, db) ==
    IF d.err # "ok" THEN Raised(d.err)
    ELSE /\ result' = Append(result, d)
         /\ a_pos' = a_pos + da
         /\ b_pos' = b_pos + db
         /\ UNCHANGED <<a, b, dd, phase, err, prev>>

\* if FabCard.__eq__(ca, cb): the card is in both lists
MergePaired ==
    /\ InLoop
    /\ LET ca == a[phase][a_pos + 1]
           cb == b[phase][b_pos + 1]
       IN /\ FabCardEq(ca, cb)
          /\ Emit(FabCardDiff(ca, cb), 1, 1)
    /\ UNCHANGED <<cardDiffVars, pageVars, recordVars>>

\* the elif branch: the card is only in a
MergeOnlyA ==
    /\ InLoop
    /\ LET ca == a[phase][a_pos + 1]
           cb == b[phase][b_pos + 1]
       IN /\ ~FabCardEq(ca, cb)
          /\ OnlyInA(ca, cb)
          /\ Emit(FabCardDiff(ca, None), 1, 0)
    /\ UNCHANGED <<cardDiffVars, pageVars, recordVars>>

\* the else branch: the card is only in b
MergeOnlyB ==
    /\ InLoop
    /\ LET ca == a[phase][a_pos + 1]
           cb == b[phase][b_pos + 1]
       IN /\ ~FabCardEq(ca, cb)
          /\ ~OnlyInA(ca, cb)
          /\ Emit(FabCardDiff(None, cb), 0, 1)
    /\ UNCHANGED <<cardDiffVars, pageVars, recordVars>>

\* l[pos:]
Rest_FromStart(l, pos) == l

Rest(l, pos) == SubSeq(l, pos + 1, Len(l))

\* the two list comprehensions after the loop
DrainA(c) == FabCardDiff(c, None)
DrainB(c) == FabCardDiff(c, None)

Remainder(la, lb, pa, pb) ==
    IF pa < Len(la) THEN [i \in 1..(Len(la) - pa) |-> DrainA(Rest(la, pa)[i])]
    ELSE IF pb < Len(lb) THEN [i \in 1..(Len(lb) - pb) |-> DrainB(Rest(lb, pb)[i])]
    ELSE <<>>

\* the loop has ended: the rest of the list that is not exhausted is
\* appended, _diff_cards returns and _compute_diff stores the list and goes
\* on to the next section
Drain ==
    /\ phase \in SectionNames
    /\ ~InLoop
    /\ LET rest == Remainder(a[phase], b[phase], a_pos, b_pos)
           bad == {i \in 1..Len(rest) : rest[i].err # "ok"}
       IN IF bad # {}
          THEN Raised(rest[CHOOSE i \in bad : \A j \in bad : i <= j].err)
          ELSE /\ dd' = [dd EXCEPT ![phase] = result \o rest]
               /\ phase' = NextPhase(phase)
               /\ a_pos' = 0 /\ b_pos' = 0 /\ result' = <<>>
               /\ UNCHANGED <<a, b, err, prev>>
    /\ UNCHANGED <<cardDiffVars, pageVars, recordVars>>

\* FabDeckDiff(a, b) for two decks that differ in at most their hero and one
\* section
InitDiff ==
    /\ \E sec \in SectionNames, ha, hb \in Heroes \cup {None},
          sa, sb \in SortedSections :
          /\ a = DeckWith(ha, sec, sa)
          /\ b = DeckWith(hb, sec, sb)
    /\ FabDeckDiffInit
    /\ prev = None
    /\ CardDiffIdle
    /\ PagesIdle
    /\ RecordsIdle

NextDiff ==
    \/ ComputeHero
    \/ MergePaired
    \/ MergeOnlyA
    \/ MergeOnlyB
    \/ Drain

SpecDiff == InitDiff /\ [][NextDiff]_vars

\* _diff_cards takes any two lists: here the "cards" sections are in any
\* order and may repeat a card; the cards of a have total 1 and the cards of
\* b total 2, which tells the two inputs apart in the output
ListsOf(cs) == UNION {[1..n -> cs] : n \in 0..MaxLen}
CardsOfA == {c \in DeckCards : c.total = 1}
CardsOfB == {c \in DeckCards : c.total = 2}

InitMerge ==
    /\ \E h \in Heroes, sa \in ListsOf(CardsOfA), sb \in ListsOf(CardsOfB) :
          /\ h.name = NameH1
          /\ a = DeckWith(h, "cards", sa)
          /\ b = DeckWith(h, "cards", sb)
    /\ FabDeckDiffInit
    /\ prev = None
    /\ CardDiffIdle
    /\ PagesIdle
    /\ RecordsIdle

SpecMerge == InitMerge /\ [][NextDiff]_vars

\* _compute_diff is straight-line code run by one thread: a step that can be
\* taken is taken
SpecMergeFair == SpecMerge /\ WF_vars(NextDiff)

\* FabDeckDiff(a, b) followed by FabDeckDiff(b, a) on two decks with a hero
\* each and sorted "cards" sections without duplicate keys
InitSwap ==
    /\ \E ha, hb \in Heroes, sa, sb \in SortedSections :
          /\ a = DeckWith(ha, "cards", sa)
          /\ b = DeckWith(hb, "cards", sb)
    /\ FabDeckDiffInit
    /\ prev = None
    /\ CardDiffIdle
    /\ PagesIdle
    /\ RecordsIdle

\* the first diff is complete; the caller keeps it and builds the second
\* with the arguments exchanged
SwapArguments ==
    /\ phase = "done"
    /\ prev = None
    /\ prev' = dd
    /\ a' = b
    /\ b' = a
    /\ dd' = [hero |-> None, weapons |-> <<>>, equipment |-> <<>>,
              cards |-> <<>>, sideboard |-> <<>>]
    /\ phase' = "hero"
    /\ a_pos' = 0 /\ b_pos' = 0 /\ result' = <<>> /\ err' = "ok"
    /\ UNCHANGED <<cardDiffVars, pageVars, recordVars>>

NextSwap ==
    \/ NextDiff
    \/ SwapArguments

SpecSwap == InitSwap /\ [][NextSwap]_vars

\* ------------------------------------------------------------------------
\* A FabCardDiff constructed on its own
\* ------------------------------------------------------------------------
InitCardDiff ==
    /\ cdA \in AnyCards \cup {None}
    /\ cdB \in AnyCards \cup {None}
    /\ cd = None
    /\ DiffIdle
    /\ PagesIdle
    /\ RecordsIdle

Construct ==
    /\ cd = None
    /\ cd' = FabCardDiff(cdA, cdB)
    /\ UNCHANGED <<cdA, cdB, diffVars, pageVars, recordVars>>

NextCardDiff == Construct

SpecCardDiff == InitCardDiff /\ [][NextCardDiff]_vars

\* ------------------------------------------------------------------------
\* FabCardResults
\* ------------------------------------------------------------------------
\* The remote catalog: the logical result sequence of the query, positions
\* 0 .. total - 1, and the "data" array of its page number n (1-based) when
\* it serves per_page results a page. A page number past either end has no
\* results.
RemoteItem(i) == [identifier |-> i]

RemoteData(n, per_page, total) ==
    LET first == (n - 1) * per_page
        size == Cardinality({i \in 0..(total - 1) :
                                first <= i /\ i < first + per_page})
    IN [k \in 1..size |-> RemoteItem(first + k - 1)]

\* meta.last_page of the remote's response
LastPage(per_page, total) == (total + per_page - 1) \div per_page

\* the query search_cards stores in the collection
SearchQuery == [keywords |-> "ninja", page_size |-> 100]

\* Python's list[i] and list[i] = v for an index inside the list
PyValid(l, i) == 0 <= i /\ i < Len(l)
PyGet(l, i) == l[i + 1]
PySet(l, i, v) == [l EXCEPT ![i + 1] = v]
\* the position a subscript stands for: a negative one counts from the end
PyNorm(l, i) == IF i < 0 THEN i + Len(l) ELSE i

\* a filled cache slot: the list of the FabCards of one page
Page(items) == [items |-> items]

\* _load_page: page = [FabCard(c) for c in data]; self._pages[number] = page
LoadPage_First(pgs, number, data) == PySet(pgs, 0, Page(data))

LoadPage(pgs, number, data) == PySet(pgs, number, Page(data))

\* _get_page: the page number sent to the API, which counts pages from one
PageParam_ZeroBased(number) == number

PageParam(number) == number + 1

\* _get_page: page_query, the copy of self.query with "page" added
PageQuery(q, number) ==
    [k \in (DOMAIN q) \cup {"page"} |->
        IF k = "page" THEN PageParam(number) ELSE q[k]]

\* __getitem__: the cache slot and the offset of an index
ItemPage(index) == index \div page_size
ItemIndex(index) == index % page_size

\* FabCardResults.__init__ on the response to the search: the cache has
\* total_pages empty slots and the page delivered with the response is loaded
InitPages ==
    /\ \E per_page \in 1..MaxPageSize, total \in 1..MaxResults :
        /\ LastPage(per_page, total) <= MaxPages
        /\ page_size = per_page
        /\ total_results = total
        /\ total_pages = LastPage(per_page, total)
        /\ \E current_page \in 1..LastPage(per_page, total) :
            pages = LoadPage([i \in 1..LastPage(per_page, total) |-> None],
                             current_page - 1,
                             RemoteData(current_page, per_page, total))
    /\ query = SearchQuery
    /\ fetched = [i \in 1..total_pages |-> 0]
    /\ requests = [i \in 1..total_pages |-> 0]
    /\ failed = 0
    /\ ret = None
    /\ it = None
    /\ callers = None
    /\ DiffIdle
    /\ CardDiffIdle
    /\ RecordsIdle

\* __getitem__: if index >= self._total_results
OutOfRange_OffByOne(index) == index > total_results

OutOfRange(index) == index >= total_results

\* __getitem__: if self._pages[item_page] == None
IsMiss_Always(pgs, item_page) == TRUE

IsMiss(pgs, item_page) == PyGet(pgs, item_page) = None

\* the cache after client._get raised in _get_page: _load_page is not reached
AfterFailedFetch_StoresEmpty(pgs, number) == LoadPage(pgs, number, <<>>)

AfterFailedFetch(pgs, number) == pgs

\* what a call ends with: the exception or the returned value, whether the
\* cache missed, the query sent to the remote (None if none was), the cache
\* afterwards and the cache slots a request was sent for
Outcome(kind, value, miss, sent, pgs, asked) ==
    [err |-> kind, value |-> value, miss |-> miss, sent |-> sent,
     pages |-> pgs, asked |-> asked]

\* __getitem__(index) on the collection as it stands; remoteOk tells whether
\* client._get succeeds if the page has to be fetched, and data is the page
\* the remote then delivers. slot is the cache position self._pages[item_page]
\* reads and writes.
GetOutcomeOn(index, remoteOk, data) ==
    IF OutOfRange(index)
    THEN Outcome("IndexError", None, FALSE, None, pages, {})
    ELSE LET item_page == ItemPage(index)
             item_index == ItemIndex(index)
             slot == PyNorm(pages, item_page)
         IN
         IF ~PyValid(pages, slot)
         THEN Outcome("IndexError", None, FALSE, None, pages, {})
         ELSE LET miss == IsMiss(pages, slot)
                  sent == IF miss THEN PageQuery(query, item_page) ELSE None
              IN
              IF miss /\ ~remoteOk
              THEN Outcome("FabDBError", None, TRUE, sent,
                           AfterFailedFetch(pages, slot), {slot})
              ELSE LET loaded == IF miss THEN LoadPage(pages, slot, data)
                                 ELSE pages
                       page == PyGet(loaded, slot)
                       asked == IF miss THEN {slot} ELSE {}
                   IN IF PyValid(page.items, item_index)
                      THEN Outcome("ok", PyGet(page.items, item_index), miss,
                                   sent, loaded, asked)
                      ELSE Outcome("IndexError", None, miss, sent, loaded,
                                   asked)

\* __getitem__(index) against the remote that holds the searched cards
GetOutcome(index, remoteOk) ==
    GetOutcomeOn(index, remoteOk,
                 RemoteData(PageParam(ItemPage(index)), page_size,
                            total_results))

\* self.query after a page request: _get_page builds page_query as a new
\* dict, so "page" and what client._get adds to the dict it is handed go to
\* the copy and self.query keeps its entries
QueryAfterRequest_Shared(q, sent) == sent

QueryAfterRequest(q, sent) == q

\* the effect of a call on the cache and on the counts of remote requests
Effect(o) ==
    /\ o.err = "FabDBError" => failed < MaxFail
    /\ pages' = o.pages
    /\ requests' = [i \in 1..Len(requests) |->
                       IF (i - 1) \in o.asked THEN requests[i] + 1
                       ELSE requests[i]]
    /\ fetched' = [i \in 1..Len(fetched) |->
                      IF (i - 1) \in o.asked /\ o.err # "FabDBError"
                      THEN fetched[i] + 1 ELSE fetched[i]]
    /\ failed' = IF o.err = "FabDBError" THEN failed + 1 ELSE failed
    /\ query' = IF o.sent = None THEN query
                ELSE QueryAfterRequest(query, o.sent)
    /\ UNCHANGED <<page_size, total_pages, total_results, callers>>

\* results[index], called from outside
Get(index, remoteOk) ==
    /\ LET o == GetOutcome(index, remoteOk) IN
        /\ Effect(o)
        /\ ret' = [op |-> "get", index |-> index, err |-> o.err,
                   value |-> o.value, miss |-> o.miss, sent |-> o.sent]
    /\ UNCHANGED it
    /\ UNCHANGED <<diffVars, cardDiffVars, recordVars>>

\* the indexes the callers of this specification pass to __getitem__
GetIndexes == 0..(MaxResults + 1)

GetItem == \E index \in GetIndexes, remoteOk \in BOOLEAN : Get(index, remoteOk)

\* __len__
LenCall ==
    /\ ret' = [op |-> "len", value |-> total_results]
    /\ UNCHANGED <<page_size, total_pages, total_results, query, pages,
                   fetched, failed, requests, it, callers>>
    /\ UNCHANGED <<diffVars, cardDiffVars, recordVars>>

\* A traversal. `for c in results` uses the sequence protocol, the class
\* defining __getitem__ and no __iter__: results[0], results[1], ... until
\* IndexError. results.__next__() is a generator: it yields self[cur] while
\* cur < total_results and then executes `raise StopIteration()`, which a
\* generator turns into RuntimeError.
Traversal(kind) ==
    [kind |-> kind, cur |-> 0, out |-> <<>>, status |-> "running"]

\* iter(results)
StartFor ==
    /\ it' = Traversal("for")
    /\ UNCHANGED <<page_size, total_pages, total_results, query, pages,
                   fetched, failed, ret, requests, callers>>
    /\ UNCHANGED <<diffVars, cardDiffVars, recordVars>>

\* results.__next__()
StartGen ==
    /\ it' = Traversal("gen")
    /\ UNCHANGED <<page_size, total_pages, total_results, query, pages,
                   fetched, failed, ret, requests, callers>>
    /\ UNCHANGED <<diffVars, cardDiffVars, recordVars>>

\* the traversal after results[cur] ended with outcome o
Advance(o) ==
    IF o.err = "ok"
    THEN [it EXCEPT !.cur = @ + 1, !.out = Append(@, o.value)]
    ELSE IF o.err = "IndexError" /\ it.kind = "for"
    THEN [it EXCEPT !.status = "ended"]
    ELSE [it EXCEPT !.status = o.err]

\* next() on the iterator of the sequence protocol
StepFor(remoteOk) ==
    /\ it # None /\ it.kind = "for" /\ it.status = "running"
    /\ LET o == GetOutcome(it.cur, remoteOk) IN
        /\ Effect(o)
        /\ it' = Advance(o)
    /\ UNCHANGED ret
    /\ UNCHANGED <<diffVars, cardDiffVars, recordVars>>

\* next() on the generator: while cur < self._total_results: yield self[cur]
StepGen(remoteOk) ==
    /\ it # None /\ it.kind = "gen" /\ it.status = "running"
    /\ it.cur < total_results
    /\ LET o == GetOutcome(it.cur, remoteOk) IN
        /\ Effect(o)
        /\ it' = Advance(o)
    /\ UNCHANGED ret
    /\ UNCHANGED <<diffVars, cardDiffVars, recordVars>>

\* next() on the generator after the loop: raise StopIteration() inside the
\* generator body, which the interpreter turns into RuntimeError (PEP 479,
\* in force in every Python that accepts the module's annotations import)
EndGen ==
    /\ it # None /\ it.kind = "gen" /\ it.status = "running"
    /\ ~(it.cur < total_results)
    /\ it' = [it EXCEPT !.status = "RuntimeError"]
    /\ UNCHANGED <<page_size, total_pages, total_results, query, pages,
                   fetched, failed, ret, requests, callers>>
    /\ UNCHANGED <<diffVars, cardDiffVars, recordVars>>

IterFor == \E remoteOk \in BOOLEAN : StepFor(remoteOk)
IterGen == \E remoteOk \in BOOLEAN : StepGen(remoteOk)

NextPages ==
    \/ GetItem
    \/ LenCall
    \/ StartFor
    \/ StartGen
    \/ IterFor
    \/ IterGen
    \/ EndGen

SpecPages == InitPages /\ [][NextPages]_vars

\* what the remote may deliver for page n: its page n, and for a page number
\* below one, which the API does not define, nothing or its first page
RemoteAnswers(n) ==
    IF n >= 1 THEN {RemoteData(n, page_size, total_results)}
    ELSE {<<>>, RemoteData(1, page_size, total_results)}

\* results[index] with a negative index
NegIndexes == (0 - (MaxResults + 1))..(0 - 1)

GetNegative ==
    /\ \E index \in NegIndexes, remoteOk \in BOOLEAN :
        \E data \in RemoteAnswers(PageParam(ItemPage(index))) :
          LET o == GetOutcomeOn(index, remoteOk, data) IN
            /\ Effect(o)
            /\ ret' = [op |-> "get", index |-> index, err |-> o.err,
                       value |-> o.value, miss |-> o.miss, sent |-> o.sent]
    /\ UNCHANGED it
    /\ UNCHANGED <<diffVars, cardDiffVars, recordVars>>

NextNegative ==
    \/ GetItem
    \/ GetNegative

SpecNegative == InitPages /\ [][NextNegative]_vars

\* Two callers share one collection. A __getitem__ call runs without
\* interruption up to the request client._get sends in _get_page, where it
\* waits for the response while the other caller may run, and from the
\* response to its return.
Callers == {1, 2}
NotCalling == [pc |-> "idle", index |-> 0, number |-> 0]

InitCallers ==
    /\ \E per_page \in 1..MaxPageSize, total \in 1..MaxResults :
        /\ LastPage(per_page, total) <= MaxPages
        /\ page_size = per_page
        /\ total_results = total
        /\ total_pages = LastPage(per_page, total)
        /\ \E current_page \in 1..LastPage(per_page, total) :
            pages = LoadPage([i \in 1..LastPage(per_page, total) |-> None],
                             current_page - 1,
                             RemoteData(current_page, per_page, total))
    /\ query = SearchQuery
    /\ fetched = [i \in 1..total_pages |-> 0]
    /\ requests = [i \in 1..total_pages |-> 0]
    /\ failed = 0
    /\ ret = None
    /\ it = None
    /\ callers = [c \in Callers |-> NotCalling]
    /\ DiffIdle
    /\ CardDiffIdle
    /\ RecordsIdle

\* page = self._pages[item_page]; return page[item_index]
ItemOf(pgs, index) ==
    LET page == PyGet(pgs, ItemPage(index)) IN
    IF PyValid(page.items, ItemIndex(index))
    THEN [err |-> "ok", value |-> PyGet(page.items, ItemIndex(index))]
    ELSE [err |-> "IndexError", value |-> None]

GetReturns(c, index, kind, value, miss, sent) ==
    ret' = [op |-> "get", index |-> index, err |-> kind, value |-> value,
            miss |-> miss, sent |-> sent, caller |-> c]

\* caller c enters __getitem__(index): the call raises, or returns from the
\* cache, or sends the request for the page and waits
BeginGet(c, index) ==
    /\ callers[c].pc = "idle"
    /\ IF OutOfRange(index) \/ ~PyValid(pages, ItemPage(index))
       THEN /\ GetReturns(c, index, "IndexError", None, FALSE, None)
            /\ UNCHANGED <<callers, requests>>
       ELSE IF IsMiss(pages, ItemPage(index))
       THEN /\ callers' = [callers EXCEPT
                              ![c] = [pc |-> "fetching", index |-> index,
                                      number |-> ItemPage(index)]]
            /\ requests' = [requests EXCEPT ![ItemPage(index) + 1] = @ + 1]
            /\ UNCHANGED ret
       ELSE /\ GetReturns(c, index, ItemOf(pages, index).err,
                        ItemOf(pages, index).value, FALSE, None)
            /\ UNCHANGED <<callers, requests>>
    /\ UNCHANGED <<page_size, total_pages, total_results, query, pages,
                   fetched, failed, it>>
    /\ UNCHANGED <<diffVars, cardDiffVars, recordVars>>

\* the response to caller c's request arrives: client._get raises, or
\* _load_page stores the page and __getitem__ returns the item
EndGet(c, remoteOk) ==
    /\ callers[c].pc = "fetching"
    /\ LET index == callers[c].index
           number == callers[c].number
           sent == PageQuery(query, number)
       IN IF ~remoteOk
          THEN /\ failed < MaxFail
               /\ failed' = failed + 1
               /\ pages' = AfterFailedFetch(pages, number)
               /\ GetReturns(c, index, "FabDBError", None, TRUE, sent)
               /\ UNCHANGED fetched
          ELSE /\ pages' = LoadPage(pages, number,
                                    RemoteData(sent.page, page_size,
                                               total_results))
               /\ fetched' = [fetched EXCEPT ![number + 1] = @ + 1]
               /\ GetReturns(c, index, ItemOf(pages', index).err,
                           ItemOf(pages', index).value, TRUE, sent)
               /\ UNCHANGED failed
    /\ callers' = [callers EXCEPT ![c] = NotCalling]
    /\ UNCHANGED <<page_size, total_pages, total_results, query, requests,
                   it>>
    /\ UNCHANGED <<diffVars, cardDiffVars, recordVars>>

NextCallers ==
    \/ \E c \in Callers, index \in GetIndexes : BeginGet(c, index)
    \/ \E c \in Callers, remoteOk \in BOOLEAN : EndGet(c, remoteOk)

SpecCallers == InitCallers /\ [][NextCallers]_vars

\* ------------------------------------------------------------------------
\* PitchValue and FabCard
\* ------------------------------------------------------------------------
\* the longest keyword list
MaxKeywords == 3

\* the supertypes, in the order of the list in the source
CARD_TYPES ==
    <<"action", "reaction", "equipment", "hero", "instant", "item",
      "weapon", "resource">>

\* the keywords of the inputs: three supertypes and three other tags
Tags == {"generic", "attack", "trap", "action", "reaction", "weapon"}

\* a Python int, a Python list and an enum member, as values distinct from
\* None
PyInt(v) == [int |-> v]
List(l) == [list |-> l]
Member(name, value) == [name |-> name, value |-> value]

\* class PitchValue(Enum)
PitchValue ==
    [none |-> Member("none", 0), red |-> Member("red", 1),
     yellow |-> Member("yellow", 2), blue |-> Member("blue", 3)]

Returned(v) == [err |-> "ok", value |-> v]

InRange_Inclusive(v) == -1 <= v /\ v <= 4
\* -1 < v < 4
InRange(v) == -1 < v /\ v < 4

\* PitchValue.from_int: v is None or PyInt(n); falling off the end of the
\* function returns None
FromInt(v) ==
    IF v = None THEN Returned(PitchValue.none)
    ELSE IF ~InRange(v.int) THEN Raise("ValueError")
    ELSE IF v.int = 0 THEN Returned(PitchValue.none)
    ELSE IF v.int = 1 THEN Returned(PitchValue.red)
    ELSE IF v.int = 2 THEN Returned(PitchValue.yellow)
    ELSE IF v.int = 3 THEN Returned(PitchValue.blue)
    ELSE Returned(None)

\* x in l
Contains(l, x) == \E i \in 1..Len(l) : l[i] = x

\* l.index(x) of a list that contains x: the first position, from 0
ListIndex(l, x) ==
    (CHOOSE i \in 1..Len(l) :
        l[i] = x /\ \A j \in 1..(i - 1) : l[j] # x) - 1

\* l[i] with Python's negative indexes, for -len(l) <= i < len(l)
PyAt(l, i) == IF i < 0 THEN l[i + Len(l) + 1] ELSE l[i + 1]

\* a slice bound as Python normalises it
SliceBound(l, i) ==
    IF i < 0 THEN (IF i + Len(l) < 0 THEN 0 ELSE i + Len(l))
    ELSE Min(i, Len(l))

\* l[lo:hi]
PySlice(l, lo, hi) == SubSeq(l, SliceBound(l, lo) + 1, SliceBound(l, hi))

\* the value of the loop variable after
\*   for supertype in CARD_TYPES: if supertype in self.keywords: break
LoopSupertype(kw) ==
    LET hits == {i \in 1..Len(CARD_TYPES) : Contains(kw, CARD_TYPES[i])} IN
    IF hits = {} THEN CARD_TYPES[Len(CARD_TYPES)]
    ELSE CARD_TYPES[CHOOSE i \in hits : \A j \in hits : i <= j]

\* FabCard._parse_keywords.  The type is a string; it is kept as the list
\* of its words ("attack reaction" is <<"attack", "reaction">>).
ParseKeywords(keywords) ==
    IF keywords = None
    THEN [err |-> "ok", type |-> None, talents |-> None, subtypes |-> None]
    ELSE LET kw == keywords.list
             supertype == LoopSupertype(kw)
         IN
         IF ~Contains(kw, supertype) THEN Raise("ValueError")
         ELSE LET found == ListIndex(kw, supertype)
                  reaction == supertype = "reaction"
                  pivot == IF reaction THEN found - 1 ELSE found
                  pivot_skip == IF reaction THEN 2 ELSE 1
              IN [err |-> "ok",
                  type |-> IF reaction
                           THEN List(<<PyAt(kw, found - 1), supertype>>)
                           ELSE List(<<supertype>>),
                  talents |-> List(PySlice(kw, 0, pivot)),
                  subtypes |-> List(PySlice(kw, pivot + pivot_skip, Len(kw)))]

\* the "stats" entry of a mapping: missing, an empty array, or a mapping
\* whose "resource" is None (missing or null) or an int
NoStats == [absent |-> TRUE]
ArrayStats == [array |-> <<>>]
Stats(resource) == [resource |-> resource]

\* stats = info.get("stats", {}); if not isinstance(stats, dict): stats = {};
\* stats.get("resource")
Resource(stats) ==
    IF stats = NoStats \/ stats = ArrayStats THEN None ELSE stats.resource

\* FabCard.__init__, for a mapping with the keys "keywords" and "stats" at
\* most: every other attribute is info.get(key), which is None
FabCardInit(i) ==
    LET p == FromInt(Resource(i.stats)) IN
    IF p.err # "ok" THEN Raise(p.err)
    ELSE LET k == ParseKeywords(i.keywords) IN
         IF k.err # "ok" THEN Raise(k.err)
         ELSE [err |-> "ok", keywords |-> i.keywords, pitch |-> p.value,
               type |-> k.type, talents |-> k.talents,
               subtypes |-> k.subtypes]

PitchInputs == {None} \cup {PyInt(v) : v \in -2..5}
KeywordLists == UNION {[1..n -> Tags] : n \in 0..MaxKeywords}
Infos ==
    [keywords : {None} \cup {List(l) : l \in KeywordLists},
     stats : {NoStats, ArrayStats} \cup {Stats(r) : r \in PitchInputs}]

InitCard ==
    /\ info \in Infos
    /\ fabcard = None
    /\ from_int = None
    /\ DiffIdle /\ CardDiffIdle /\ PagesIdle /\ DeckIdle /\ FilterIdle

\* FabCard(info)
NewFabCard ==
    /\ fabcard = None
    /\ fabcard' = FabCardInit(info)
    /\ UNCHANGED <<info, from_int>>
    /\ UNCHANGED <<diffVars, cardDiffVars, pageVars, deckVars, filterVars>>

\* PitchValue.from_int(v)
CallFromInt(v) ==
    /\ from_int' = [v |-> v, result |-> FromInt(v)]
    /\ UNCHANGED <<info, fabcard>>
    /\ UNCHANGED <<diffVars, cardDiffVars, pageVars, deckVars, filterVars>>

PitchCall == \E v \in PitchInputs : CallFromInt(v)

NextCard == NewFabCard \/ PitchCall

SpecCard == InitCard /\ [][NextCard]_vars

\* ------------------------------------------------------------------------
\* FabDeck
\* ------------------------------------------------------------------------
\* the most entries of a payload, "cards" and "sideboard" together
MaxPayload == 3

\* the keyword lists of the payload's cards: a hero that is a weapon too, a
\* weapon, a card with equipment listed before weapon, a piece of equipment
\* and an action (lists without a supertype fail in FabCard)
DeckKeywords ==
    {<<"hero", "weapon">>, <<"generic", "weapon">>,
     <<"equipment", "weapon">>, <<"generic", "equipment">>,
     <<"generic", "action">>}

\* (pitch, name) of the payload's cards: two that differ in name only and
\* one of a higher pitch with the smaller name
PayloadKeys == {<<1, NameA>>, <<1, NameB>>, <<2, NameA>>}

PayloadCards ==
    {[name |-> k[2], keywords |-> List(kw), stats |-> Stats(PyInt(k[1])),
      total |-> 1] : k \in PayloadKeys, kw \in DeckKeywords}

PayloadLists(n) == UNION {[1..m -> PayloadCards] : m \in 0..n}

\* FabDeckCard.__init__: FabCard.__init__ and self.total
FabDeckCardInit(c) ==
    LET f == FabCardInit(c) IN
    IF f.err # "ok" THEN f
    ELSE [err |-> "ok", name |-> c.name, keywords |-> f.keywords,
          pitch |-> f.pitch, type |-> f.type, total |-> c.total]

\* a FabDeck before _load_cards; into is "cards" or "sideboard"
NewDeck ==
    [err |-> "ok", hero |-> None, weapons |-> <<>>, equipment |-> <<>>,
     cards |-> <<>>, sideboard |-> <<>>]

\* the body of the loop of _load_cards for one entry
LoadCard_EquipmentFirst(d, c, into) ==
    LET new_card == FabDeckCardInit(c) IN
    IF new_card.err # "ok" THEN Raise(new_card.err)
    ELSE IF Contains(new_card.keywords.list, "hero")
         THEN [d EXCEPT !.hero = new_card]
    ELSE IF Contains(new_card.keywords.list, "equipment")
         THEN [d EXCEPT !.equipment = Append(@, new_card)]
    ELSE IF Contains(new_card.keywords.list, "weapon")
         THEN [d EXCEPT !.weapons = Append(@, new_card)]
    ELSE [d EXCEPT ![into] = Append(@, new_card)]

LoadCard(d, c, into) ==
    LET new_card == FabDeckCardInit(c) IN
    IF new_card.err # "ok" THEN Raise(new_card.err)
    ELSE IF Contains(new_card.keywords.list, "hero")
         THEN [d EXCEPT !.hero = new_card]
    ELSE IF Contains(new_card.keywords.list, "weapon")
         THEN [d EXCEPT !.weapons = Append(@, new_card)]
    ELSE IF Contains(new_card.keywords.list, "equipment")
         THEN [d EXCEPT !.equipment = Append(@, new_card)]
    ELSE [d EXCEPT ![into] = Append(@, new_card)]

\* FabDeck._load_cards(cards, into)
RECURSIVE LoadCards(_, _, _)
LoadCards(d, cards, into) ==
    IF d.err # "ok" \/ cards = <<>> THEN d
    ELSE LoadCards(LoadCard(d, Head(cards), into), Tail(cards), into)

\* sorter = lambda o: (o.pitch.value, o.name)
Sorter(o) == <<o.pitch.value, o.name>>

\* sorted(l, key=sorter): ascending by key and stable, so the place of an
\* entry is the number of entries of a smaller key, or of its key and
\* before it in l
SortedByKey(l) ==
    LET Before(k, j) ==
            \/ KeyLess(Sorter(l[k]), Sorter(l[j]))
            \/ (~KeyLess(Sorter(l[j]), Sorter(l[k])) /\ k < j)
        Place(j) == Cardinality({k \in 1..Len(l) : Before(k, j)}) + 1
    IN [i \in 1..Len(l) |-> l[CHOOSE j \in 1..Len(l) : Place(j) = i]]

SortDeck_ListsOnly(d) ==
    [d EXCEPT !.cards = SortedByKey(@), !.sideboard = SortedByKey(@)]
\* FabDeck._sort
SortDeck(d) ==
    [d EXCEPT !.cards = SortedByKey(@), !.sideboard = SortedByKey(@),
              !.weapons = SortedByKey(@), !.equipment = SortedByKey(@)]

\* the payload: a list of entries cut in two, "cards" and "sideboard"
InitDeck ==
    /\ \E l \in PayloadLists(MaxPayload) :
         \E k \in 0..Len(l) :
            deck_info = [cards |-> SubSeq(l, 1, k),
                         sideboard |-> SubSeq(l, k + 1, Len(l))]
    /\ deck = None
    /\ DiffIdle /\ CardDiffIdle /\ PagesIdle /\ CardIdle /\ FilterIdle

\* FabDeck(info): _load_cards for "cards", _load_cards for "sideboard",
\* then _sort, unless a card's construction raised
NewFabDeck ==
    /\ deck = None
    /\ \E d1 \in {LoadCards(NewDeck, deck_info.cards, "cards")} :
         \E d2 \in {LoadCards(d1, deck_info.sideboard, "sideboard")} :
            deck' = IF d2.err # "ok" THEN d2 ELSE SortDeck(d2)
    /\ UNCHANGED deck_info
    /\ UNCHANGED <<diffVars, cardDiffVars, pageVars, cardVars, filterVars>>

NextDeck == NewFabDeck

SpecDeck == InitDeck /\ [][NextDeck]_vars

\* ------------------------------------------------------------------------
\* CardFilter
\* ------------------------------------------------------------------------
\* the longest list handed to apply
MaxCards == 2

\* a Python str: the sequence of its code points
PyStr(s) == [str |-> s]

\* type(v)
TypeOf(v) ==
    IF v = None THEN "NoneType"
    ELSE IF "int" \in DOMAIN v THEN "int"
    ELSE "str"

\* the allowed_types of lookup_table; None there allows every type
AllowedTypes(comparison) ==
    IF comparison \in {"lt", "lte", "gt", "gte"} THEN {"int", "float"}
    ELSE IF comparison = "regex" THEN {"str"}
    ELSE {"NoneType", "int", "float", "str"}

\* type(target) in self.allowed_types
Accepts(comparison, target) == TypeOf(target) \in AllowedTypes(comparison)

\* a string with its ASCII capitals folded, as re.IGNORECASE compares
LowerStr(s) ==
    [i \in 1..Len(s) |-> IF s[i] \in 65..90 THEN s[i] + 32 ELSE s[i]]

\* t in v, for two strings
IsSubstring(t, v) ==
    \E k \in 0..(Len(v) - Len(t)) : SubSeq(v, k + 1, k + Len(t)) = t

\* v < t, v <= t, v > t, v >= t on ints
Ordered(comparison, v, t) ==
    IF comparison = "lt" THEN v < t
    ELSE IF comparison = "lte" THEN v <= t
    ELSE IF comparison = "gt" THEN v > t
    ELSE v >= t

\* the matcher lambdas of lookup_table, with the TypeError Python raises for
\* operands the operator does not take; a regex target is a literal
\* pattern, so re.search(t, v, re.IGNORECASE) looks for t in v without case
Matcher(comparison, v, t) ==
    IF comparison \in {"lt", "lte", "gt", "gte"}
    THEN IF TypeOf(v) = "int" /\ TypeOf(t) = "int"
         THEN Returned(Ordered(comparison, v.int, t.int))
         ELSE IF TypeOf(v) = "str" /\ TypeOf(t) = "str"
         THEN Returned(IF comparison = "lt" THEN StrLess(v.str, t.str)
                       ELSE IF comparison = "lte" THEN ~StrLess(t.str, v.str)
                       ELSE IF comparison = "gt" THEN StrLess(t.str, v.str)
                       ELSE ~StrLess(v.str, t.str))
         ELSE Raise("TypeError")
    ELSE IF comparison = "eq" THEN Returned(v = t)
    ELSE IF comparison = "neq" THEN Returned(v # t)
    ELSE IF comparison = "contains"
    THEN IF TypeOf(v) = "str" /\ TypeOf(t) = "str"
         THEN Returned(IsSubstring(t.str, v.str))
         ELSE Raise("TypeError")
    ELSE IF TypeOf(v) = "str" /\ TypeOf(t) = "str"
         THEN Returned(IsSubstring(LowerStr(t.str), LowerStr(v.str)))
         ELSE Raise("TypeError")

\* Comparison.matches
Matches(comparison, value, target) ==
    IF ~Accepts(comparison, target) THEN Raise("ValueError")
    ELSE Matcher(comparison, value, target)

\* CardFilter._get_field_value: an Enum member gives its value
GetFieldValue(card, field) ==
    LET attr == card[field] IN
    IF attr # None /\ "value" \in DOMAIN attr THEN PyInt(attr.value)
    ELSE attr

\* the list comprehension of CardFilter.apply: the cards are tested in
\* order and the first exception ends the call
RECURSIVE ApplyFrom(_, _, _)
ApplyFrom(f, cards, kept) ==
    IF cards = <<>> THEN Returned(List(kept))
    ELSE LET c == Head(cards)
             m == Matches(f.comparison, GetFieldValue(c, f.field), f.target)
         IN IF m.err # "ok" THEN m
            ELSE ApplyFrom(f, Tail(cards),
                           IF m.value THEN Append(kept, c) ELSE kept)

Apply(f, cards) == ApplyFrom(f, cards, <<>>)

\* FabCards seen through three of their fields: cost is None for a card
\* without stats
\* (<<65, 98>> is "Ab", <<98>> is "b")
FilterCards ==
    {[name |-> PyStr(<<65, 98>>), cost |-> None, pitch |-> PitchValue.none],
     [name |-> PyStr(<<65, 98>>), cost |-> PyInt(1), pitch |-> PitchValue.red],
     [name |-> PyStr(<<98>>), cost |-> PyInt(2), pitch |-> PitchValue.red],
     [name |-> PyStr(<<98>>), cost |-> PyInt(1), pitch |-> PitchValue.blue]}

Comparisons == {"lt", "lte", "gt", "gte", "eq", "neq", "contains", "regex"}
\* the targets: None, 1, 2, "b", "AB" and "1"
Targets ==
    {None, PyInt(1), PyInt(2), PyStr(<<98>>), PyStr(<<65, 66>>),
     PyStr(<<49>>)}
CardFilters ==
    [field : {"name", "cost", "pitch"}, comparison : Comparisons,
     target : Targets]

InitFilter ==
    /\ cardfilter \in CardFilters
    /\ cards_in \in UNION {[1..n -> FilterCards] : n \in 0..MaxCards}
    /\ applied = None
    /\ DiffIdle /\ CardDiffIdle /\ PagesIdle /\ CardIdle /\ DeckIdle

\* CardFilter.apply(cards)
ApplyFilter ==
    /\ applied = None
    /\ applied' = Apply(cardfilter, cards_in)
    /\ UNCHANGED <<cardfilter, cards_in>>
    /\ UNCHANGED <<diffVars, cardDiffVars, pageVars, cardVars, deckVars>>

NextFilter == ApplyFilter

SpecFilter == InitFilter /\ [][NextFilter]_vars

\* ------------------------------------------------------------------------
\* Properties of the deck diff
\* ------------------------------------------------------------------------
Done == phase = "done"

Keys(s) == {KeyOf(s[i]) : i \in 1..Len(s)}
EntryKey(e) == KeyOf(e.card)

\* the positions of section sec of the diff that refer to key k
EntriesOf(sec, k) == {i \in 1..Len(dd[sec]) : EntryKey(dd[sec][i]) = k}

\* C1: for sorted sections without duplicate keys, _diff_cards returns exactly
\* one entry per distinct (pitch, name) key of the union of the two sections:
\* the output is as long as the number of distinct keys, and a key of both
\* lists is emitted (once), not omitted.
C1_OneEntryPerKey ==
    Done =>
        \A sec \in SectionNames :
            LET ks == Keys(a[sec]) \cup Keys(b[sec]) IN
            /\ Len(dd[sec]) = Cardinality(ks)
            /\ \A k \in ks : Cardinality(EntriesOf(sec, k)) = 1

\* C2: for sorted sections without duplicate keys, the list _diff_cards
\* returns is sorted ascending by the lexicographic key (pitch.value, name).
C2_OutputSorted ==
    Done =>
        \A sec \in SectionNames :
            \A i \in 1..(Len(dd[sec]) - 1) :
                ~KeyLess(EntryKey(dd[sec][i + 1]), EntryKey(dd[sec][i]))

\* C3: a card of b's section whose key is absent from a's section gives a
\* one-sided entry with the a-side absent, the b-side that card and
\* delta = +total, in the loop and in the drain alike.
C3_OnlyInBIsAddition ==
    Done =>
        \A sec \in SectionNames :
            \A j \in 1..Len(b[sec]) :
                KeyOf(b[sec][j]) \notin Keys(a[sec]) =>
                    \E i \in 1..Len(dd[sec]) :
                        /\ dd[sec][i].a = None
                        /\ dd[sec][i].b = b[sec][j]
                        /\ dd[sec][i].delta = b[sec][j].total

\* C4: a card of a's section whose key is absent from b's section gives
\* exactly one entry for it, one-sided with the a-side that card, the b-side
\* absent and delta = -total, in the loop and in the drain alike.
C4_OnlyInAIsRemoval ==
    Done =>
        \A sec \in SectionNames :
            \A j \in 1..Len(a[sec]) :
                KeyOf(a[sec][j]) \notin Keys(b[sec]) =>
                    /\ \E i \in 1..Len(dd[sec]) :
                        /\ dd[sec][i].a = a[sec][j]
                        /\ dd[sec][i].b = None
                        /\ dd[sec][i].delta = -(a[sec][j].total)
                    /\ Cardinality({i \in 1..Len(dd[sec]) :
                                       dd[sec][i].a = a[sec][j]}) = 1

\* C4's case: a finished diff in which one card only in a was emitted by the
\* loop (an entry of b follows it) and another by the drain of a (last entry,
\* b being exhausted before a)
C4_Witness ==
    /\ Done
    /\ \E sec \in SectionNames :
        /\ Len(dd[sec]) = 3
        /\ dd[sec][1].b = None /\ dd[sec][1].a = a[sec][1]
        /\ dd[sec][2].a = None /\ dd[sec][2].b = b[sec][1]
        /\ dd[sec][3].b = None /\ dd[sec][3].a = a[sec][2]
        /\ dd[sec][3].delta = -2

AllDeltasZero ==
    /\ dd.hero # None => dd.hero.delta = 0
    /\ \A sec \in SectionNames :
        \A i \in 1..Len(dd[sec]) : dd[sec][i].delta = 0

\* C5: diffing a deck against itself completes, and every entry (the hero
\* entry and every entry of the four sections) has delta 0.
C5_SelfDiffIsZero ==
    a = b => (phase # "raised" /\ (Done => AllDeltasZero))

\* C8: diffing two decks neither of which has a hero raises no error, and the
\* four section diffs are still produced.
C8_NoHeroesNoError ==
    (a.hero = None /\ b.hero = None) => phase # "raised"

\* C9: for decks with sorted, deduplicated sections, FabDeckDiff never raises
\* the ValueError of FabCardDiff, in a section or in the hero slot.
C9_NeverDiffMismatch == err # "ValueError"

\* ------------------------------------------------------------------------
\* Properties of a FabCardDiff
\* ------------------------------------------------------------------------
Built == cd # None
BuiltOk == cd # None /\ cd.err = "ok"

\* c.total or 0, for an absent side as well
TotalOr0(c) == IF c = None THEN 0 ELSE IF HasTotal(c) THEN c.total ELSE 0

BothAbsent == cdA = None /\ cdB = None
Mismatch == cdA # None /\ cdB # None /\ ~FabCardEq(cdA, cdB)
TotalAbsent ==
    (cdA # None /\ ~HasTotal(cdA)) \/ (cdB # None /\ ~HasTotal(cdB))

\* C6: for every successfully constructed FabCardDiff(a, b), delta is
\* (b.total or 0) - (a.total or 0): positive for a net addition, negative for
\* a net removal.
C6_DeltaIsAfterMinusBefore ==
    BuiltOk =>
        /\ cd.delta = TotalOr0(cdB) - TotalOr0(cdA)
        /\ cd.a = cdA /\ cd.b = cdB

\* C6's case: both sides present with different totals, a net removal
C6_Witness ==
    /\ BuiltOk /\ cdA # None /\ cdB # None
    /\ cdA.total = 2 /\ cdB.total = 1 /\ cd.delta = -1

\* C7 as stated: construction fails (with ValueError) exactly when both sides
\* are absent or both are present and are not the same card; in every other
\* case it succeeds.
C7_FailsExactlyInTwoCases ==
    Built =>
        /\ cd.err = "ValueError" <=> (BothAbsent \/ Mismatch)
        /\ ~(BothAbsent \/ Mismatch) => cd.err = "ok"

\* C7 amended: ValueError is raised exactly in the two cases; in every other
\* case construction succeeds if every present side has a total, and raises
\* TypeError if a present side has none.
C7_ValueErrorExactlyInTwoCases ==
    Built =>
        /\ cd.err = "ValueError" <=> (BothAbsent \/ Mismatch)
        /\ (~(BothAbsent \/ Mismatch) /\ ~TotalAbsent) => cd.err = "ok"
        /\ (~(BothAbsent \/ Mismatch) /\ TotalAbsent) => cd.err = "TypeError"

\* C7's case: two present sides of different pitch were refused
C7_Witness ==
    /\ Built /\ cd.err = "ValueError"
    /\ cdA # None /\ cdB # None
    /\ cdA.name = cdB.name /\ cdA.pitch # cdB.pitch

\* ------------------------------------------------------------------------
\* Properties of the result collection
\* ------------------------------------------------------------------------
GotInRange ==
    /\ ret # None /\ ret.op = "get"
    /\ 0 <= ret.index /\ ret.index < total_results

\* C10: for 0 <= index < total_results, __getitem__(index) returns the item
\* at position index of the logical sequence: it reads cache slot
\* index // page_size at offset index % page_size, and when that slot was
\* unfetched it first fetched the remote page numbered index // page_size + 1
\* and stored it in that slot.
C10_GetReturnsItemAtIndex ==
    GotInRange =>
        LET slot == ret.index \div page_size
            offset == ret.index % page_size
        IN /\ ret.err \in {"ok", "FabDBError"}
           /\ ret.miss => (ret.sent # None /\ ret.sent.page = slot + 1)
           /\ ~ret.miss => (ret.sent = None /\ ret.err = "ok")
           /\ ret.err = "ok" =>
                /\ ret.value = RemoteItem(ret.index)
                /\ pages[slot + 1] # None
                /\ pages[slot + 1].items =
                       RemoteData(slot + 1, page_size, total_results)
                /\ pages[slot + 1].items[offset + 1] = ret.value

\* C10's case: the last index of a collection whose last page is short (five
\* results in pages of two, as 250 in pages of 100) was read from slot 2
\* after fetching page 3
C10_Witness ==
    /\ GotInRange
    /\ total_results = 5 /\ page_size = 2
    /\ ret.index = 4 /\ ret.err = "ok" /\ ret.miss
    /\ ret.sent.page = 3
    /\ ret.value = RemoteItem(4)
    /\ Len(pages[3].items) = 1

Slots == 1..Len(pages)

\* C11: __getitem__(index) with index >= total_results fails with IndexError,
\* sends no request to the remote and leaves the page cache unchanged.
C11_OutOfRangeGetRaises ==
    [][(ret' # ret /\ ret'.op = "get" /\ ret'.index >= total_results) =>
          /\ ret'.err = "IndexError"
          /\ ret'.value = None
          /\ ret'.sent = None
          /\ pages' = pages
          /\ requests' = requests
          /\ fetched' = fetched
          /\ failed' = failed]_vars

\* C11's case: get(5) on five results in pages of two (get(250) of 250 in
\* pages of 100) was refused while a page was still unfetched
C11_Witness ==
    /\ ret # None /\ ret.op = "get"
    /\ total_results = 5 /\ page_size = 2
    /\ ret.index = 5 /\ ret.err = "IndexError"
    /\ pages[3] = None /\ requests[3] = 0

\* C12: over any sequence of get and traversal steps each page is fetched at
\* most once: an unfetched slot was never fetched, a fetched slot is filled,
\* the page delivered with the search response (the one filled slot never
\* fetched) stays so, and a filled slot is never emptied or replaced.
C12_EachPageFetchedAtMostOnce ==
    /\ [](\A i \in Slots :
            /\ fetched[i] <= 1
            /\ pages[i] = None => fetched[i] = 0
            /\ fetched[i] = 1 => pages[i] # None)
    /\ [](Cardinality({i \in Slots : pages[i] # None /\ fetched[i] = 0}) = 1)
    /\ [][\A i \in Slots : pages[i] # None => pages'[i] = pages[i]]_vars

\* C12's case: index 2 was served from the cache (get(120)) after page 2 had
\* been fetched once (by get(150))
C12_Witness ==
    /\ ret # None /\ ret.op = "get"
    /\ total_results = 5 /\ page_size = 2
    /\ ret.index = 2 /\ ret.err = "ok" /\ ~ret.miss
    /\ fetched[2] = 1 /\ requests[2] = 1

\* the logical result sequence
AllItems == [i \in 1..total_results |-> RemoteItem(i - 1)]

\* C13: a traversal yields exactly the items at 0 .. total_results - 1 in
\* that order and then ends.
C13_TraversalYieldsAllThenEnds ==
    (it # None /\ it.status \notin {"running", "FabDBError"}) =>
        (it.status = "ended" /\ it.out = AllItems)

\* C14: a failed remote fetch is raised to the caller of get, or of the
\* traversal in progress: no item is returned, one request was sent (no
\* retry), and the cache, with the unfetched slot, is as it was.
C14_FailedFetchPropagates ==
    [][failed' # failed =>
          /\ failed' = failed + 1
          /\ pages' = pages
          /\ fetched' = fetched
          /\ \E i \in Slots :
                /\ pages[i] = None
                /\ requests' = [requests EXCEPT ![i] = @ + 1]
          /\ \/ /\ it' = it
                /\ ret' # None /\ ret'.op = "get"
                /\ ret'.err = "FabDBError" /\ ret'.value = None
             \/ /\ ret' = ret
                /\ it' # None /\ it # None
                /\ it'.status = "FabDBError"
                /\ it'.out = it.out /\ it'.cur = it.cur]_vars

\* C14's case: a page whose first request failed was fetched by a later get
C14_Witness ==
    /\ ret # None /\ ret.op = "get" /\ ret.err = "ok" /\ ret.miss
    /\ failed = 1
    /\ LET i == (ret.index \div page_size) + 1 IN
        /\ requests[i] = 2 /\ fetched[i] = 1 /\ pages[i] # None

\* C15: from_int(v) returns the member whose integer is v for v in 0..3,
\* PitchValue.none for None, and raises ValueError, returning nothing, for
\* every other integer.
C15_FromIntTotal ==
    from_int # None =>
        LET v == from_int.v
            r == from_int.result
        IN
        /\ v = None => r = Returned(PitchValue.none)
        /\ (v # None /\ v.int \in 0..3) =>
              /\ r.err = "ok" /\ r.value # None
              /\ r.value.value = v.int
              /\ r.value \in {PitchValue.none, PitchValue.red,
                              PitchValue.yellow, PitchValue.blue}
        /\ (v # None /\ v.int \notin 0..3) => r = Raise("ValueError")

\* C15's case at the edge of the range: from_int(4) was refused
C15_Witness ==
    /\ from_int # None
    /\ from_int.v = PyInt(4)
    /\ from_int.result = Raise("ValueError")

\* the supertype tokens of a keyword list
IsSupertype(t) == Contains(CARD_TYPES, t)
SupertypeTokens(kw) == {i \in 1..Len(kw) : IsSupertype(kw[i])}

\* C16: for a keyword list with exactly one supertype token, talents, the
\* words of the type and subtypes, in this order, are the keyword list.
C16_PartsRebuildKeywords ==
    (/\ fabcard # None /\ fabcard.err = "ok"
     /\ fabcard.keywords # None
     /\ Cardinality(SupertypeTokens(fabcard.keywords.list)) = 1) =>
        fabcard.talents.list \o fabcard.type.list \o fabcard.subtypes.list
            = fabcard.keywords.list

\* a pitch the card constructor refuses
BadPitch(i) ==
    /\ i.stats # NoStats /\ i.stats # ArrayStats
    /\ i.stats.resource # None
    /\ i.stats.resource.int \notin 0..3

\* C17: FabCard(info) raises only for an out-of-range pitch integer.
C17_OnlyBadPitchRaises ==
    fabcard # None => (fabcard.err # "ok" <=> BadPitch(info))

\* a deck has been built
DeckBuilt == deck # None /\ deck.err = "ok"

DeckSections == {"weapons", "equipment", "cards", "sideboard"}

\* ascending by (pitch.value, name): no entry is followed by a smaller one
IsSortedByKey(s) ==
    \A i \in 1..(Len(s) - 1) : ~KeyLess(Sorter(s[i + 1]), Sorter(s[i]))

\* C18: after FabDeck construction every one of weapons, equipment, cards
\* and sideboard is sorted ascending by (pitch.value, name).
C18_SectionsSorted ==
    DeckBuilt => \A sec \in DeckSections : IsSortedByKey(deck[sec])

\* C18's case: two weapons arrive in descending order, one in each array,
\* and stand in ascending order in the deck
C18_Witness ==
    /\ DeckBuilt
    /\ Len(deck_info.cards) = 1 /\ Len(deck_info.sideboard) = 1
    /\ KeyLess(<<deck_info.sideboard[1].stats.resource.int,
                 deck_info.sideboard[1].name>>,
               <<deck_info.cards[1].stats.resource.int,
                 deck_info.cards[1].name>>)
    /\ Len(deck.weapons) = 2
    /\ deck.weapons[1].name = deck_info.sideboard[1].name
    /\ deck.weapons[2].name = deck_info.cards[1].name

\* no two entries of a payload array are the same card
OnePerCard(l) ==
    \A i, j \in 1..Len(l) :
        (i # j) => <<l[i].stats.resource, l[i].name>>
                    # <<l[j].stats.resource, l[j].name>>

NoKeyTwice(s) ==
    \A i, j \in 1..Len(s) : (i # j) => Sorter(s[i]) # Sorter(s[j])

\* C19: when neither array of the payload holds a card twice, no section of
\* the deck holds two entries of one (pitch, name) key.
C19_SectionsHaveNoDuplicateKey ==
    (/\ DeckBuilt
     /\ OnePerCard(deck_info.cards)
     /\ OnePerCard(deck_info.sideboard)) =>
        \A sec \in DeckSections : NoKeyTwice(deck[sec])

\* the card's field satisfies the filter's comparison against the target
Satisfies(f, c) ==
    LET m == Matcher(f.comparison, GetFieldValue(c, f.field), f.target) IN
    m.err = "ok" /\ m.value

\* the cards of l that satisfy f, in the order of l
Matching(f, l) ==
    LET Test(c) == Satisfies(f, c) IN SelectSeq(l, Test)

\* C20: apply raises for a target whose type the comparison does not accept
\* and otherwise returns, in input order, exactly the cards whose field
\* satisfies the comparison, an enum field compared by its integer.
C20_ApplyReturnsMatches ==
    applied # None =>
        IF ~Accepts(cardfilter.comparison, cardfilter.target)
        THEN applied.err # "ok"
        ELSE applied = Returned(List(Matching(cardfilter, cards_in)))

\* ------------------------------------------------------------------------
\* Properties of the merge loop
\* ------------------------------------------------------------------------
\* the two head cards of an iteration
HeadA == a[phase][a_pos + 1]
HeadB == b[phase][b_pos + 1]

\* C21: in an iteration whose heads are not the same card, the head of the
\* smaller (pitch.value, name) key, pitch first and name on a tie, is
\* emitted one-sided and only its cursor advances.
C21_SmallerKeyEmitted ==
    [][(InLoop /\ ~FabCardEq(HeadA, HeadB)) =>
          IF KeyLess(KeyOf(HeadA), KeyOf(HeadB))
          THEN /\ a_pos' = a_pos + 1 /\ b_pos' = b_pos
               /\ result' = Append(result, FabCardDiff(HeadA, None))
          ELSE /\ a_pos' = a_pos /\ b_pos' = b_pos + 1
               /\ result' = Append(result, FabCardDiff(None, HeadB))]_vars

\* ------------------------------------------------------------------------
\* Properties of the keyword classification
\* ------------------------------------------------------------------------
\* a card built from a keyword list that holds a supertype
Classified ==
    /\ fabcard # None /\ fabcard.err = "ok"
    /\ fabcard.keywords # None
    /\ SupertypeTokens(fabcard.keywords.list) # {}

\* the first supertype token in the order of the keyword list
FirstSupertypeAt(kw) ==
    CHOOSE i \in SupertypeTokens(kw) : \A j \in SupertypeTokens(kw) : i <= j

\* C22: the supertype token that stands first in the keyword list gives the
\* type (its last word) and, unless it is reaction, the pivot: talents are
\* the tokens before it, whatever the order of CARD_TYPES.
C22_FirstTokenInKeywordOrder ==
    Classified =>
        LET kw == fabcard.keywords.list
            p == FirstSupertypeAt(kw)
        IN /\ fabcard.type.list[Len(fabcard.type.list)] = kw[p]
           /\ kw[p] # "reaction" =>
                 fabcard.talents.list = SubSeq(kw, 1, p - 1)

\* C23: when the matched supertype is reaction, at list position p (from 1),
\* the type is the token before it and "reaction", talents are the tokens
\* before that token and subtypes the tokens after reaction; for reaction
\* in the first position there is no token before it and no talent.
C23_ReactionSplit ==
    (Classified /\ LoopSupertype(fabcard.keywords.list) = "reaction") =>
        LET kw == fabcard.keywords.list
            p == ListIndex(kw, "reaction") + 1
        IN /\ fabcard.talents.list = SubSeq(kw, 1, p - 2)
           /\ fabcard.subtypes.list = SubSeq(kw, p + 1, Len(kw))
           /\ p > 1 => fabcard.type.list = <<kw[p - 1], "reaction">>
           /\ p = 1 => fabcard.type.list[Len(fabcard.type.list)] = "reaction"

\* ------------------------------------------------------------------------
\* Frame of the result collection
\* ------------------------------------------------------------------------
\* C24: no call changes page_size, total_pages, total_results or the stored
\* query; a cache slot changes only by being filled on a miss; a get that
\* misses changes no slot but index // page_size; a get that hits and len
\* change no slot and send no request.
C24_GetChangesOnlyItsSlot ==
    [][/\ UNCHANGED <<page_size, total_pages, total_results, query>>
       /\ \A i \in Slots :
            pages'[i] # pages[i] =>
                (pages[i] = None /\ requests'[i] = requests[i] + 1)
       /\ it' = it =>
            /\ ret' # None
            /\ (ret'.op = "len" \/ ~ret'.miss) =>
                  (pages' = pages /\ requests' = requests
                   /\ fetched' = fetched /\ failed' = failed)
            /\ (ret'.op = "get" /\ ret'.miss) =>
                  \A i \in Slots :
                     i # ItemPage(ret'.index) + 1 =>
                         (pages'[i] = pages[i]
                          /\ requests'[i] = requests[i])]_vars

\* C24's case: a get missed, page 2 was requested with the copy of the
\* query, and the stored query has no "page"
C24_Witness ==
    /\ ret # None /\ ret.op = "get" /\ ret.miss /\ ret.err = "ok"
    /\ ret.sent.page = 2
    /\ ret.sent.keywords = query.keywords
    /\ query = SearchQuery
    /\ pages[2] # None /\ fetched[2] = 1
    /\ \E i \in Slots : i # 2 /\ pages[i] # None

\* ------------------------------------------------------------------------
\* Properties of the merge on arbitrary lists
\* ------------------------------------------------------------------------
CountIn(s, c) == Cardinality({i \in 1..Len(s) : s[i] = c})
SidesOf(out, c) ==
    Cardinality({i \in 1..Len(out) : out[i].a = c})
    + Cardinality({i \in 1..Len(out) : out[i].b = c})
PairedIn(out) == {i \in 1..Len(out) : out[i].a # None /\ out[i].b # None}

\* the entries of out hold the elements of la and lb, each once
Accounted(out, la, lb) ==
    /\ 2 * Cardinality(PairedIn(out))
         + (Len(out) - Cardinality(PairedIn(out))) = Len(la) + Len(lb)
    /\ \A c \in DeckCards : SidesOf(out, c) = CountIn(la, c) + CountIn(lb, c)

\* C25: for any two lists, sorted or not, every element consumed so far is
\* in exactly one entry of the output so far, and when _diff_cards has
\* returned every a[i] and every b[j] is in exactly one entry, so that
\* 2 * paired + one-sided = len(a) + len(b).
C25_EveryCardConsumedOnce ==
    /\ phase \in SectionNames =>
          Accounted(result, SubSeq(a[phase], 1, a_pos),
                    SubSeq(b[phase], 1, b_pos))
    /\ Done => \A sec \in SectionNames : Accounted(dd[sec], a[sec], b[sec])

\* C25's case: a is not sorted and repeats nothing, b repeats a card; one
\* pair was made, and the second copy in b came out of the drain
C25_Witness ==
    /\ Done
    /\ Len(a.cards) = 2 /\ Len(b.cards) = 2
    /\ KeyLess(KeyOf(a.cards[2]), KeyOf(a.cards[1]))
    /\ b.cards[1] = b.cards[2]
    /\ Cardinality(PairedIn(dd.cards)) = 1
    /\ Len(dd.cards) = 3
    /\ dd.cards[3].card = b.cards[2]

\* ------------------------------------------------------------------------
\* Properties of the diff under exchange of its arguments
\* ------------------------------------------------------------------------
BothBuilt == Done /\ prev # None

\* entry e is entry f seen from the other side
Mirrors(e, f) ==
    /\ EntryKey(e) = EntryKey(f)
    /\ e.delta = -(f.delta)
    /\ e.a = f.b
    /\ e.b = f.a

\* C26: FabDeckDiff(b, a) has in every section the cards of FabDeckDiff(a, b)
\* in the same order, each entry with its delta negated and its sides
\* exchanged.
C26_SwapNegatesDiff ==
    BothBuilt =>
        /\ Mirrors(dd.hero, prev.hero)
        /\ \A sec \in SectionNames :
              /\ Len(dd[sec]) = Len(prev[sec])
              /\ \A i \in 1..Len(dd[sec]) : Mirrors(dd[sec][i], prev[sec][i])

\* ------------------------------------------------------------------------
\* Termination of the merge
\* ------------------------------------------------------------------------
MergeStep == phase \in SectionNames /\ phase' = phase

\* C27: _diff_cards terminates on all finite lists: a step of the loop is
\* taken only while both cursors are short of the end, moves at least one
\* cursor forward and none back; the cursors stay within 0..len(a) and
\* 0..len(b); once a cursor is at the end the next step leaves the loop; and
\* every run reaches the end of _compute_diff.
C27_MergeTerminates ==
    /\ [][MergeStep =>
            /\ InLoop
            /\ a_pos' >= a_pos /\ b_pos' >= b_pos
            /\ a_pos' + b_pos' > a_pos + b_pos]_vars
    /\ [][(phase \in SectionNames /\ ~InLoop) => phase' # phase]_vars
    /\ [](phase \in SectionNames =>
            /\ a_pos \in 0..Len(a[phase])
            /\ b_pos \in 0..Len(b[phase]))
    /\ <>Done

\* C27's case: the loop ran twice on unsorted lists and a has just been
\* exhausted with a card of b left
C27_Witness ==
    /\ phase = "cards"
    /\ Len(a.cards) = 2 /\ Len(b.cards) = 2
    /\ KeyLess(KeyOf(b.cards[2]), KeyOf(b.cards[1]))
    /\ a_pos = 2 /\ b_pos = 1
    /\ Len(result) = 2

\* ------------------------------------------------------------------------
\* Negative indexes
\* ------------------------------------------------------------------------
\* C28: __getitem__ with a negative index raises IndexError, returns no item
\* and sends no page request.
C28_NegativeIndexRefused ==
    (ret # None /\ ret.op = "get" /\ ret.index < 0) =>
        (ret.err = "IndexError" /\ ~ret.miss /\ ret.sent = None)

\* ------------------------------------------------------------------------
\* Two callers on one collection
\* ------------------------------------------------------------------------
\* C29: under every interleaving of the get calls of two callers, each
\* waiting at its page request, a get that returns gives the item at its
\* index, and a filled cache slot is never emptied nor given the items of
\* another page.
C29_InterleavedGetsAgree ==
    /\ [](ret # None /\ ret.err = "ok" => ret.value = RemoteItem(ret.index))
    /\ [][\A i \in Slots :
             pages[i] # None =>
                 /\ pages'[i] # None
                 /\ pages'[i].items = RemoteData(i, page_size, total_results)
                 /\ pages'[i] = pages[i]]_vars

\* C29's case: both callers asked for the same missing page, it was fetched
\* twice, and the second response has been stored over the first
C29_Witness ==
    /\ callers # None
    /\ \A c \in Callers : callers[c].pc = "idle"
    /\ ret # None /\ ret.err = "ok" /\ ret.miss
    /\ \E i \in Slots :
          /\ fetched[i] = 2
          /\ ret.sent.page = i
          /\ pages[i] # None

\* ------------------------------------------------------------------------
\* Section assignment of a deck
\* ------------------------------------------------------------------------
HasKeyword(c, k) == \E i \in 1..Len(c.keywords.list) : c.keywords.list[i] = k

\* where the card of a payload entry belongs; into is the array it is in
SectionFor(c, into) ==
    IF HasKeyword(c, "hero") THEN "hero"
    ELSE IF HasKeyword(c, "weapon") THEN "weapons"
    ELSE IF HasKeyword(c, "equipment") THEN "equipment"
    ELSE into

\* deck card x is the card of payload entry e
LoadsAs(e, x) ==
    /\ x.name = e.name
    /\ x.keywords = e.keywords
    /\ x.pitch.value = e.stats.resource.int
    /\ x.total = e.total

\* the entries equal to e of payload array into that belong to sec
Destined(into, sec, e) ==
    {i \in 1..Len(deck_info[into]) :
        deck_info[into][i] = e /\ SectionFor(e, into) = sec}

PayloadEntries == deck_info.cards \o deck_info.sideboard

PayloadHeroes == SelectSeq(PayloadEntries, LAMBDA c : HasKeyword(c, "hero"))

\* C30: every card of the payload's two arrays goes to one section by the
\* precedence hero, weapon, equipment, own array: each section holds a card
\* as many times as the payload holds entries destined for it and the
\* sections hold nothing else, so a card without the hero keyword is in
\* exactly one section; the hero slot holds one card of the hero keyword
\* (the last of the payload) or nothing.
C30_OneSectionPerCard ==
    DeckBuilt =>
        /\ \A sec \in DeckSections :
              \A k \in 1..Len(PayloadEntries) :
                 Cardinality({i \in 1..Len(deck[sec]) :
                                 LoadsAs(PayloadEntries[k], deck[sec][i])}) =
                    Cardinality(Destined("cards", sec, PayloadEntries[k]))
                    + Cardinality(Destined("sideboard", sec,
                                           PayloadEntries[k]))
        /\ Len(deck.weapons) + Len(deck.equipment) + Len(deck.cards)
             + Len(deck.sideboard) = Len(PayloadEntries) - Len(PayloadHeroes)
        /\ IF PayloadHeroes = <<>> THEN deck.hero = None
           ELSE /\ deck.hero # None
                /\ LoadsAs(PayloadHeroes[Len(PayloadHeroes)], deck.hero)

\* C30's case: a hero that is also a weapon went to the hero slot, a card
\* with equipment listed before weapon went from the sideboard to weapons,
\* and an action of the sideboard stayed there
C30_Witness ==
    /\ DeckBuilt
    /\ Len(deck_info.cards) = 1 /\ Len(deck_info.sideboard) = 2
    /\ deck.hero # None /\ Contains(deck.hero.keywords.list, "weapon")
    /\ Len(deck.weapons) = 1
    /\ deck.weapons[1].keywords.list = <<"equipment", "weapon">>
    /\ Len(deck.sideboard) = 1 /\ Len(deck.cards) = 0
    /\ deck.equipment = <<>>

====
